---- MODULE Spec2Model ----
(***************************************************************************)
(* AnimalShelter (src/animalShelter.py): validated CRUD, canned rescue-type *)
(* queries and aggregate statistics over the `animals` collection.          *)
(*                                                                          *)
(* A Python argument is a tagged value [kind, ...]: None, a str, a list     *)
(* (unhashable) or a dict.  A dict is a function from key strings to        *)
(* values; a stored document is a dict that carries "_id".  ObjectIds are   *)
(* the positive integers, handed out in increasing order.  A criteria value *)
(* is a tagged condition: equality, {"$in": ...} or {"$gte": .., "$lte": ..}*)
(* Field values are scalars (strings, and integer ages in weeks); of the    *)
(* store's update operators the model has $set and $unset.  The store may   *)
(* fail any call (`fault`); every store call of an operation is logged in   *)
(* `calls`, the operation's arguments and outcome in `last`, and the        *)
(* collection the operation started from in `before`.                       *)
(***************************************************************************)
EXTENDS Integers, Sequences, FiniteSets, TLC

VARIABLES animals, nextId, before, calls, last

vars == <<animals, nextId, before, calls, last>>

\* ObjectIds the driver may generate during one run of the model.
MaxId == 2

--------------------------------------------------------------------------
\* Python values

PyNone == [kind |-> "none"]
PyStr(s) == [kind |-> "str", s |-> s]
PyList(n) == [kind |-> "list", n |-> n]
PyDict(d) == [kind |-> "dict", d |-> d]

EmptyDict == [k \in {} |-> 0]

\* bool(v), as `not data`, `not criteria`, `not update_data` evaluate it
Truthy(v) ==
    CASE v.kind = "none" -> FALSE
      [] v.kind = "str"  -> v.s # ""
      [] v.kind = "list" -> v.n > 0
      [] v.kind = "dict" -> DOMAIN v.d # {}

\* isinstance(v, dict)
IsDict(v) == v.kind = "dict"

\* hash(v) succeeds: list and dict are unhashable
Hashable(v) == v.kind \in {"none", "str"}

With(d, k, v) == [x \in DOMAIN d \cup {k} |-> IF x = k THEN v ELSE d[x]]
Without(d, ks) == [x \in DOMAIN d \ ks |-> d[x]]
Merge(d, e) == [x \in DOMAIN d \cup DOMAIN e |-> IF x \in DOMAIN e THEN e[x] ELSE d[x]]

RECURSIVE SumAges(_)
SumAges(s) ==
    IF s = <<>> THEN 0
    ELSE Head(s)["age_upon_outcome_in_weeks"] + SumAges(Tail(s))

RECURSIVE GCD(_, _)
GCD(a, b) == IF b = 0 THEN a ELSE GCD(b, a % b)

--------------------------------------------------------------------------
\* The store (the pymongo collection self.database.animals)

Eq(v) == [op |-> "eq", v |-> v]
In(vs) == [op |-> "in", vs |-> vs]
GteLte(lo, hi) == [op |-> "gte_lte", gte |-> lo, lte |-> hi]

\* one field of a filter against the field's value
Sat(v, c) ==
    CASE c.op = "eq"      -> v = c.v
      [] c.op = "in"      -> v \in c.vs
      [] c.op = "gte_lte" -> v >= c.gte /\ v <= c.lte

\* a document matches a filter when every field of the filter is present
\* in the document and satisfies its condition
Matches(doc, filter) ==
    \A f \in DOMAIN filter : f \in DOMAIN doc /\ Sat(doc[f], filter[f])

\* how many documents of the collection match the filter
MatchedCount(coll, filter) ==
    Cardinality({i \in DOMAIN coll : Matches(coll[i], filter)})

\* projection: {'_id': False} excludes the identity; an inclusion
\* projection keeps the named fields and the identity
Project(doc, projection) ==
    IF \A f \in DOMAIN projection : ~projection[f]
    THEN Without(doc, DOMAIN projection)
    ELSE [f \in {g \in DOMAIN doc : g = "_id" \/ (g \in DOMAIN projection /\ projection[g])}
            |-> doc[f]]

\* find(filter, projection), materialised by list(cursor)
Find(coll, filter, projection, fault) ==
    IF fault
    THEN [raised |-> TRUE, docs |-> <<>>]
    ELSE LET hit == SelectSeq(coll, LAMBDA doc : Matches(doc, filter))
         IN  [raised |-> FALSE,
              docs |-> [i \in DOMAIN hit |-> Project(hit[i], projection)]]

\* insert_one(document): the driver adds "_id" to the caller's dict when it
\* has none, before the document is sent; a duplicate "_id" is an error
InsertOne(coll, document, fresh, fault) ==
    LET doc == IF "_id" \in DOMAIN document THEN document
               ELSE With(document, "_id", fresh)
        dup == \E i \in DOMAIN coll : coll[i]["_id"] = doc["_id"]
    IN  [raised      |-> fault \/ dup,
         document    |-> doc,
         inserted_id |-> doc["_id"],
         coll        |-> IF fault \/ dup THEN coll ELSE Append(coll, doc)]

UpdateOperators == {"$set", "$unset"}

\* an update document the store accepts: non-empty, operator keys only
ValidUpdate(update) ==
    /\ DOMAIN update # {}
    /\ \A k \in DOMAIN update : k \in UpdateOperators

ApplyUpdate(doc, update) ==
    LET set   == IF "$set" \in DOMAIN update THEN Merge(doc, update["$set"]) ELSE doc
    IN  IF "$unset" \in DOMAIN update THEN Without(set, DOMAIN update["$unset"]) ELSE set

\* update_many(filter, update)
UpdateMany(coll, filter, update, fault) ==
    IF fault \/ ~ValidUpdate(update)
    THEN [raised |-> TRUE, coll |-> coll, matched_count |-> 0, modified_count |-> 0]
    ELSE [raised |-> FALSE,
          coll |-> [i \in DOMAIN coll |->
                      IF Matches(coll[i], filter) THEN ApplyUpdate(coll[i], update)
                      ELSE coll[i]],
          matched_count  |-> MatchedCount(coll, filter),
          modified_count |-> Cardinality({i \in DOMAIN coll :
                                 /\ Matches(coll[i], filter)
                                 /\ ApplyUpdate(coll[i], update) # coll[i]})]

\* delete_many(filter)
DeleteMany(coll, filter, fault) ==
    IF fault
    THEN [raised |-> TRUE, coll |-> coll, deleted_count |-> 0]
    ELSE [raised |-> FALSE,
          coll |-> SelectSeq(coll, LAMBDA doc : ~Matches(doc, filter)),
          deleted_count |-> MatchedCount(coll, filter)]

\* the mean as an exact fraction in lowest terms; [num 0, den 0] is null,
\* what $avg yields when no document has a numeric value
Mean(sum, n) ==
    IF n = 0 THEN [num |-> 0, den |-> 0]
    ELSE LET g == GCD(sum, n) IN [num |-> sum \div g, den |-> n \div g]

\* aggregate([{$group: {_id: None, total_animals: {$sum: 1},
\*   avg_age_weeks: {$avg: '$age_upon_outcome_in_weeks'},
\*   breeds: {$addToSet: '$breed'}}}]): no row for an empty collection;
\* $avg and $addToSet skip the documents that lack the field
Aggregate(coll, fault) ==
    IF fault THEN [raised |-> TRUE, rows |-> <<>>]
    ELSE IF coll = <<>> THEN [raised |-> FALSE, rows |-> <<>>]
    ELSE LET aged == SelectSeq(coll, LAMBDA doc : "age_upon_outcome_in_weeks" \in DOMAIN doc)
         IN [raised |-> FALSE,
             rows |-> << [_id           |-> "null",
                          total_animals |-> Len(coll),
                          avg_age_weeks |-> Mean(SumAges(aged), Len(aged)),
                          breeds        |-> {coll[i]["breed"] :
                                               i \in {j \in DOMAIN coll : "breed" \in DOMAIN coll[j]}}] >>]

--------------------------------------------------------------------------
\* AnimalShelter

required_fields == {"animal_type", "breed", "age_upon_outcome_in_weeks"}

\* a gate that asks for any required field where the code asks for all
ValidRecord_AnyField(data) ==
    /\ Truthy(data)
    /\ IsDict(data)
    /\ \E field \in required_fields : field \in DOMAIN data.d

\* create's gate: a non-empty dict that holds every required field
ValidRecord(data) ==
    /\ Truthy(data)
    /\ IsDict(data)
    /\ \A field \in required_fields : field \in DOMAIN data.d

\* key.startswith('$'), over the keys the model uses
StartsWithDollar(key) == key \in {"$set", "$unset"}

\* "Ensure update operator is present"
NormalizeUpdate(update_data) ==
    IF ~(\E key \in DOMAIN update_data : StartsWithDollar(key))
    THEN "$set" :> update_data
    ELSE update_data

\* read's default projection
DefaultProjection == "_id" :> FALSE

WaterBreeds == {"Labrador Retriever Mix", "Chesapeake Bay Retriever", "Newfoundland"}
MountBreeds == {"German Shepherd", "Alaskan Malamute", "Old English Sheepdog",
                "Siberian Husky", "Rottweiler"}
DisasterBreeds == {"Doberman Pinscher", "German Shepherd", "Golden Retriever",
                   "Bloodhound", "Rottweiler"}

WaterMinAge == 26
WaterMaxAge == 156
MountMinAge == 26
MountMaxAge == 156
\* the disaster range starting where the water and mount ranges start
DisasterMinAge_AsWater == WaterMinAge
DisasterMinAge == 20
DisasterMaxAge == 300

rescue_criteria ==
    [water |->
        [animal_type |-> Eq("Dog"),
         breed |-> In(WaterBreeds),
         sex_upon_outcome |-> Eq("Intact Female"),
         age_upon_outcome_in_weeks |-> GteLte(WaterMinAge, WaterMaxAge)],
     mount |->
        [animal_type |-> Eq("Dog"),
         breed |-> In(MountBreeds),
         sex_upon_outcome |-> Eq("Intact Male"),
         age_upon_outcome_in_weeks |-> GteLte(MountMinAge, MountMaxAge)],
     disaster |->
        [animal_type |-> Eq("Dog"),
         breed |-> In(DisasterBreeds),
         sex_upon_outcome |-> Eq("Intact Male"),
         age_upon_outcome_in_weeks |-> GteLte(DisasterMinAge, DisasterMaxAge)]]

\* `rescue_type not in rescue_criteria`, for a hashable rescue_type
InCatalog(rescue_type) ==
    rescue_type.kind = "str" /\ rescue_type.s \in DOMAIN rescue_criteria

\* the body of read's try block: what it returns and the store calls it makes
ReadBody(coll, criteria, projection, fault) ==
    LET crit == IF criteria.kind = "none" THEN PyDict(EmptyDict) ELSE criteria
        proj == IF projection.kind = "none" THEN DefaultProjection ELSE projection.d
    IN  IF ~IsDict(crit)
        THEN [ret |-> <<>>, calls |-> <<>>]
        ELSE LET r == Find(coll, crit.d, proj, fault)
             IN  [ret   |-> IF r.raised THEN <<>> ELSE r.docs,
                  calls |-> <<[fn |-> "find", filter |-> crit.d, projection |-> proj,
                               fault |-> fault, raised |-> r.raised]>>]

\* success taken from matched_count where the code takes modified_count
UpdateResult_MatchedSuccess(result) ==
    [matched_count  |-> result.matched_count,
     modified_count |-> result.modified_count,
     success        |-> result.matched_count > 0]

\* update's result dict, from the store's UpdateResult
UpdateResult(result) ==
    [matched_count  |-> result.matched_count,
     modified_count |-> result.modified_count,
     success        |-> result.modified_count > 0]

\* success for a count of zero too
DeleteResult_ZeroSuccess(result) ==
    [deleted_count |-> result.deleted_count,
     success       |-> result.deleted_count >= 0]

\* delete's result dict, from the store's DeleteResult
DeleteResult(result) ==
    [deleted_count |-> result.deleted_count,
     success       |-> result.deleted_count > 0]

\* the group row with unique_breeds added and _id, breeds deleted
StatsResult(stats) ==
    [total_animals |-> stats.total_animals,
     avg_age_weeks |-> stats.avg_age_weeks,
     unique_breeds |-> Cardinality(stats.breeds)]

\* def create(self, data)
DoCreate(data, fault) ==
    IF ~ValidRecord(data)
    THEN /\ last' = [op |-> "create", data |-> data, dataAfter |-> data,
                     again |-> FALSE, raised |-> FALSE, ret |-> FALSE]
         /\ calls' = <<>>
         /\ UNCHANGED <<animals, nextId>>
    ELSE LET hasId == "_id" \in DOMAIN data.d
             r == InsertOne(animals, data.d, nextId, fault)
         IN  /\ hasId \/ nextId <= MaxId
             /\ animals' = r.coll
             /\ nextId' = IF hasId THEN nextId ELSE nextId + 1
             /\ calls' = <<[fn |-> "insert_one", document |-> r.document,
                            fault |-> fault, raised |-> r.raised]>>
             /\ last' = [op |-> "create", data |-> data,
                         dataAfter |-> PyDict(r.document),
                         again |-> /\ last.op = "create"
                                   /\ last.ret
                                   /\ Without(data.d, {"_id"}) = Without(last.data.d, {"_id"}),
                         raised |-> FALSE,
                         ret |-> IF r.raised THEN FALSE ELSE r.inserted_id # 0]

\* def read(self, criteria=None, projection=None)
DoRead(criteria, projection, fault) ==
    LET r == ReadBody(animals, criteria, projection, fault)
    IN  /\ last' = [op |-> "read", criteria |-> criteria, projection |-> projection,
                    raised |-> FALSE, ret |-> r.ret]
        /\ calls' = r.calls
        /\ UNCHANGED <<animals, nextId>>

\* def update(self, criteria, update_data)
DoUpdate(criteria, update_data, fault) ==
    IF ~Truthy(criteria) \/ ~Truthy(update_data)
    THEN /\ last' = [op |-> "update", criteria |-> criteria, update_data |-> update_data,
                     raised |-> FALSE,
                     ret |-> [success |-> FALSE,
                              error |-> "Both criteria and update_data are required"]]
         /\ calls' = <<>>
         /\ UNCHANGED <<animals, nextId>>
    ELSE IF ~IsDict(criteria) \/ ~IsDict(update_data)
    THEN /\ last' = [op |-> "update", criteria |-> criteria, update_data |-> update_data,
                     raised |-> FALSE,
                     ret |-> [success |-> FALSE,
                              error |-> "Both criteria and update_data must be dictionaries"]]
         /\ calls' = <<>>
         /\ UNCHANGED <<animals, nextId>>
    ELSE LET sent == NormalizeUpdate(update_data.d)
             r == UpdateMany(animals, criteria.d, sent, fault)
         IN  /\ animals' = r.coll
             /\ calls' = <<[fn |-> "update_many", filter |-> criteria.d, update |-> sent,
                            fault |-> fault, raised |-> r.raised]>>
             /\ last' = [op |-> "update", criteria |-> criteria, update_data |-> update_data,
                         raised |-> FALSE,
                         ret |-> IF r.raised
                                 THEN [success |-> FALSE, error |-> "store"]
                                 ELSE UpdateResult(r)]
             /\ UNCHANGED nextId

\* def delete(self, criteria)
DoDelete(criteria, fault) ==
    IF ~Truthy(criteria)
    THEN /\ last' = [op |-> "delete", criteria |-> criteria, raised |-> FALSE,
                     ret |-> [success |-> FALSE, error |-> "Delete criteria cannot be empty"]]
         /\ calls' = <<>>
         /\ UNCHANGED <<animals, nextId>>
    ELSE IF ~IsDict(criteria)
    THEN /\ last' = [op |-> "delete", criteria |-> criteria, raised |-> FALSE,
                     ret |-> [success |-> FALSE, error |-> "Criteria must be a dictionary"]]
         /\ calls' = <<>>
         /\ UNCHANGED <<animals, nextId>>
    ELSE LET r == DeleteMany(animals, criteria.d, fault)
         IN  /\ animals' = r.coll
             /\ calls' = <<[fn |-> "delete_many", filter |-> criteria.d,
                            fault |-> fault, raised |-> r.raised]>>
             /\ last' = [op |-> "delete", criteria |-> criteria, raised |-> FALSE,
                         ret |-> IF r.raised
                                 THEN [success |-> FALSE, error |-> "store"]
                                 ELSE DeleteResult(r)]
             /\ UNCHANGED nextId

\* def get_breeds_by_rescue_type(self, rescue_type): the membership test is
\* outside any try block and hashes rescue_type
DoGetBreeds(rescue_type, fault) ==
    IF ~Hashable(rescue_type)
    THEN /\ last' = [op |-> "get_breeds_by_rescue_type", rescue_type |-> rescue_type,
                     raised |-> TRUE, ret |-> <<>>]
         /\ calls' = <<>>
         /\ UNCHANGED <<animals, nextId>>
    ELSE IF ~InCatalog(rescue_type)
    THEN /\ last' = [op |-> "get_breeds_by_rescue_type", rescue_type |-> rescue_type,
                     raised |-> FALSE, ret |-> <<>>]
         /\ calls' = <<>>
         /\ UNCHANGED <<animals, nextId>>
    ELSE LET r == ReadBody(animals, PyDict(rescue_criteria[rescue_type.s]), PyNone, fault)
         IN  /\ last' = [op |-> "get_breeds_by_rescue_type", rescue_type |-> rescue_type,
                         raised |-> FALSE, ret |-> r.ret]
             /\ calls' = r.calls
             /\ UNCHANGED <<animals, nextId>>

\* def get_animal_statistics(self)
DoGetStatistics(fault) ==
    LET r == Aggregate(animals, fault)
    IN  /\ calls' = <<[fn |-> "aggregate", fault |-> fault, raised |-> r.raised]>>
        /\ last' = [op |-> "get_animal_statistics", raised |-> FALSE,
                    ret |-> IF r.raised \/ r.rows = <<>>
                            THEN EmptyDict
                            ELSE StatsResult(r.rows[1])]
        /\ UNCHANGED <<animals, nextId>>

--------------------------------------------------------------------------
\* The calls the model makes

Animal(t, b, s, a) ==
    [animal_type |-> t, breed |-> b, sex_upon_outcome |-> s,
     age_upon_outcome_in_weeks |-> a]

ValidRecords ==
    { Animal("Dog", "Newfoundland", "Intact Female", 26),
      Animal("Dog", "Poodle", "Intact Female", 157),
      [animal_type |-> "Cat", breed |-> "Newfoundland",
       age_upon_outcome_in_weeks |-> 26] }

InvalidRecords ==
    { [breed |-> "Poodle", age_upon_outcome_in_weeks |-> 26],
      [animal_type |-> "Dog", age_upon_outcome_in_weeks |-> 26],
      [animal_type |-> "Dog", breed |-> "Poodle"],
      [sex_upon_outcome |-> "Intact Male"] }

CreateInputs ==
    {PyNone, PyStr("Dog"), PyList(1), PyDict(EmptyDict)}
        \cup {PyDict(d) : d \in ValidRecords \cup InvalidRecords}

CriteriaInputs ==
    {PyNone, PyStr("Dog"), PyDict(EmptyDict),
     PyDict([animal_type |-> Eq("Dog")]),
     PyDict([breed |-> Eq("Poodle")])}

UpdateInputs ==
    {PyNone, PyList(1), PyDict(EmptyDict),
     PyDict([breed |-> "Poodle"]),
     PyDict("$set" :> [age_upon_outcome_in_weeks |-> 157]),
     PyDict("$unset" :> [age_upon_outcome_in_weeks |-> ""]),
     PyDict(("$set" :> [age_upon_outcome_in_weeks |-> 157]) @@ [breed |-> "Poodle"])}

ProjectionInputs == {PyNone, PyDict([breed |-> TRUE])}

RescueTypeInputs ==
    {PyStr("water"), PyStr("mount"), PyStr("disaster"), PyStr("unknown"),
     PyNone, PyList(0)}

NoCall == [op |-> "none", raised |-> FALSE, ret |-> FALSE]

Init ==
    /\ animals = <<>>
    /\ nextId = 1
    /\ before = <<>>
    /\ calls = <<>>
    /\ last = NoCall

\* the caller passes a new value, or once more the dict object it passed to
\* the create call just before (which the driver may have changed)
create ==
    \E data \in CreateInputs \cup (IF last.op = "create" THEN {last.dataAfter} ELSE {}),
       fault \in BOOLEAN :
        DoCreate(data, fault) /\ before' = animals

read ==
    \E criteria \in CriteriaInputs, projection \in ProjectionInputs, fault \in BOOLEAN :
        DoRead(criteria, projection, fault) /\ before' = animals

update ==
    \E criteria \in CriteriaInputs, update_data \in UpdateInputs, fault \in BOOLEAN :
        DoUpdate(criteria, update_data, fault) /\ before' = animals

delete ==
    \E criteria \in CriteriaInputs, fault \in BOOLEAN :
        DoDelete(criteria, fault) /\ before' = animals

get_breeds_by_rescue_type ==
    \E rescue_type \in RescueTypeInputs, fault \in BOOLEAN :
        DoGetBreeds(rescue_type, fault) /\ before' = animals

get_animal_statistics ==
    \E fault \in BOOLEAN : DoGetStatistics(fault) /\ before' = animals

Next ==
    \/ create
    \/ read
    \/ update
    \/ delete
    \/ get_breeds_by_rescue_type
    \/ get_animal_statistics

Spec == Init /\ [][Next]_vars

\* The rescue-type queries over records on and around every bound of the
\* catalog's age ranges
RescueRecords ==
    { Animal("Dog", "Newfoundland", "Intact Female", a) : a \in {25, 26, 156, 157} }
      \cup { Animal("Dog", "German Shepherd", "Intact Male", a) :
                a \in {19, 20, 25, 26, 156, 157, 300, 301} }
      \cup { Animal("Cat", "German Shepherd", "Intact Male", 26),
             Animal("Dog", "Poodle", "Intact Male", 26),
             Animal("Dog", "German Shepherd", "Intact Female", 26),
             Animal("Dog", "Alaskan Malamute", "Intact Male", 100),
             Animal("Dog", "Bloodhound", "Intact Male", 100),
             [animal_type |-> "Dog", breed |-> "Newfoundland",
              age_upon_outcome_in_weeks |-> 26] }

createRescue ==
    \E data \in {PyDict(d) : d \in RescueRecords}, fault \in BOOLEAN :
        DoCreate(data, fault) /\ before' = animals

NextRescue ==
    \/ createRescue
    \/ delete
    \/ get_breeds_by_rescue_type

SpecRescue == Init /\ [][NextRescue]_vars

--------------------------------------------------------------------------
\* Properties

StoreCalled == calls # <<>>
StoreAnswered == calls # <<>> /\ ~calls[1].raised

\* the record lacks a required key, is empty, or is no mapping
Incomplete(data) ==
    \/ data.kind # "dict"
    \/ "animal_type" \notin DOMAIN data.d
    \/ "breed" \notin DOMAIN data.d
    \/ "age_upon_outcome_in_weeks" \notin DOMAIN data.d

\* C1: create with a record that lacks a required field, or with an empty
\* or non-mapping input, returns False, makes no store call and leaves the
\* collection as it was.
C1_CreateRejectsIncomplete ==
    (last.op = "create" /\ Incomplete(last.data))
        => /\ last.ret = FALSE
           /\ ~last.raised
           /\ calls = <<>>
           /\ animals = before

C1_Witness ==
    /\ last.op = "create"
    /\ last.data.kind = "dict"
    /\ DOMAIN last.data.d = {"animal_type", "age_upon_outcome_in_weeks"}
    /\ last.ret = FALSE
    /\ Len(animals) = 1

\* C2: every record held in the collection has all three required fields.
C2_RequiredFieldsPersisted ==
    \A i \in DOMAIN animals :
        {"animal_type", "breed", "age_upon_outcome_in_weeks"} \subseteq DOMAIN animals[i]

OperatorKey(k) == k \in {"$set", "$unset"}

\* C3: a non-empty mapping payload whose keys are all operator keys reaches
\* the store unchanged, any other is sent wrapped under a single "$set", and
\* the payload that reaches the store has operator keys only.
C3_PayloadOperatorWrapped ==
    (last.op = "update" /\ StoreCalled)
        => LET payload == last.update_data.d
               sent == calls[1].update
           IN  /\ (\A k \in DOMAIN payload : OperatorKey(k)) => sent = payload
               /\ (\E k \in DOMAIN payload : ~OperatorKey(k)) => sent = ("$set" :> payload)
               /\ \A k \in DOMAIN sent : OperatorKey(k)

\* C4: an update the store accepts reports the number of records the
\* criteria matched and the number of records changed, with success true
\* exactly when a record changed; no match gives 0, 0, false, and a match
\* whose records already hold the new value gives modified_count 0, false.
C4_UpdateCounts ==
    (last.op = "update" /\ StoreAnswered)
        => LET matched == {i \in DOMAIN before : Matches(before[i], last.criteria.d)}
               changed == {i \in DOMAIN before : animals[i] # before[i]}
           IN  /\ Len(animals) = Len(before)
               /\ last.ret.matched_count = Cardinality(matched)
               /\ last.ret.modified_count = Cardinality(changed)
               /\ changed \subseteq matched
               /\ last.ret.success = (last.ret.modified_count > 0)
               /\ matched = {} => (last.ret.modified_count = 0 /\ ~last.ret.success)
               /\ (matched # {} /\ animals = before)
                     => /\ last.ret.matched_count > 0
                        /\ last.ret.modified_count = 0
                        /\ ~last.ret.success

\* a flat payload whose value the matched records already hold
C4_Witness ==
    /\ last.op = "update"
    /\ StoreAnswered
    /\ last.update_data.d = [breed |-> "Poodle"]
    /\ last.ret.matched_count > 0
    /\ last.ret.modified_count = 0
    /\ ~last.ret.success

\* C5: delete with a non-empty mapping criteria removes exactly the matching
\* records (when the store carries the call out) and reports their number,
\* with success true exactly when it is positive; with missing, empty or
\* non-mapping criteria it reports failure and removes nothing.
C5_DeleteExactlyMatching ==
    last.op = "delete"
        => IF last.criteria.kind = "dict" /\ DOMAIN last.criteria.d # {}
           THEN /\ StoreCalled
                /\ StoreAnswered =>
                      /\ \A i \in DOMAIN before :
                            (\E j \in DOMAIN animals : animals[j] = before[i])
                                <=> ~Matches(before[i], last.criteria.d)
                      /\ \A j \in DOMAIN animals : \E i \in DOMAIN before : before[i] = animals[j]
                      /\ last.ret.deleted_count = Len(before) - Len(animals)
                      /\ last.ret.success = (last.ret.deleted_count > 0)
                /\ ~StoreAnswered => (animals = before /\ ~last.ret.success)
           ELSE /\ ~last.ret.success
                /\ animals = before
                /\ calls = <<>>

C5_Witness ==
    /\ last.op = "delete"
    /\ StoreAnswered
    /\ last.ret.success
    /\ last.ret.deleted_count = 1
    /\ Len(animals) = 1

\* the catalog's predicate for a rescue type, on a stored record
Suitable(doc, rescue) ==
    /\ {"animal_type", "breed", "sex_upon_outcome", "age_upon_outcome_in_weeks"}
           \subseteq DOMAIN doc
    /\ doc.animal_type = "Dog"
    /\ CASE rescue = "water" ->
              /\ doc.breed \in {"Labrador Retriever Mix", "Chesapeake Bay Retriever",
                                "Newfoundland"}
              /\ doc.sex_upon_outcome = "Intact Female"
              /\ doc.age_upon_outcome_in_weeks \in 26..156
         [] rescue = "mount" ->
              /\ doc.breed \in {"German Shepherd", "Alaskan Malamute", "Old English Sheepdog",
                                "Siberian Husky", "Rottweiler"}
              /\ doc.sex_upon_outcome = "Intact Male"
              /\ doc.age_upon_outcome_in_weeks \in 26..156
         [] rescue = "disaster" ->
              /\ doc.breed \in {"Doberman Pinscher", "German Shepherd", "Golden Retriever",
                                "Bloodhound", "Rottweiler"}
              /\ doc.sex_upon_outcome = "Intact Male"
              /\ doc.age_upon_outcome_in_weeks \in 20..300

KnownRescue(rescue_type) ==
    rescue_type.kind = "str" /\ rescue_type.s \in {"water", "mount", "disaster"}

\* C6: for water, mount and disaster, get_breeds_by_rescue_type returns
\* exactly the stored records that satisfy the type's predicate (bounds of
\* the age range included), each without its "_id".
C6_RescueExactlyPredicate ==
    (last.op = "get_breeds_by_rescue_type" /\ KnownRescue(last.rescue_type))
        => /\ StoreCalled
           /\ StoreAnswered =>
                LET hit == SelectSeq(animals, LAMBDA doc : Suitable(doc, last.rescue_type.s))
                IN  /\ Len(last.ret) = Len(hit)
                    /\ \A i \in DOMAIN hit :
                          /\ "_id" \notin DOMAIN last.ret[i]
                          /\ DOMAIN last.ret[i] = DOMAIN hit[i] \ {"_id"}
                          /\ \A f \in DOMAIN last.ret[i] : last.ret[i][f] = hit[i][f]

\* a disaster query that returns the record on the lower bound and leaves
\* another record out
C6_Witness ==
    /\ last.op = "get_breeds_by_rescue_type"
    /\ last.rescue_type = PyStr("disaster")
    /\ StoreAnswered
    /\ Len(last.ret) = 1
    /\ last.ret[1].age_upon_outcome_in_weeks = 20
    /\ Len(animals) = 2

\* C7: for every rescue_type that is not water, mount or disaster,
\* get_breeds_by_rescue_type returns an empty list and calls the store not
\* at all.
C7_UnknownRescueEmpty ==
    (last.op = "get_breeds_by_rescue_type" /\ ~KnownRescue(last.rescue_type))
        => /\ ~last.raised
           /\ last.ret = <<>>
           /\ calls = <<>>

\* C8: get_animal_statistics returns an empty summary on an empty
\* collection; on N records it returns exactly total_animals = N,
\* unique_breeds = the number of distinct breeds and avg_age_weeks = the
\* mean of age_upon_outcome_in_weeks over all N records.
C8_StatisticsSummary ==
    (last.op = "get_animal_statistics" /\ StoreAnswered)
        => /\ ~last.raised
           /\ IF animals = <<>>
              THEN DOMAIN last.ret = {}
              ELSE /\ DOMAIN last.ret = {"total_animals", "unique_breeds", "avg_age_weeks"}
                   /\ last.ret.total_animals = Len(animals)
                   /\ last.ret.unique_breeds =
                        Cardinality({animals[i].breed :
                                        i \in {j \in DOMAIN animals : "breed" \in DOMAIN animals[j]}})
                   /\ \A i \in DOMAIN animals : "age_upon_outcome_in_weeks" \in DOMAIN animals[i]
                   /\ last.ret.avg_age_weeks.den > 0
                   /\ last.ret.avg_age_weeks.num * Len(animals)
                        = last.ret.avg_age_weeks.den * SumAges(animals)

\* C9: no public operation raises to its caller: a read-type operation that
\* fails returns an empty result, a write-type operation one whose success
\* flag is false, and a rejected argument reaches no store call.
C9_NeverRaises ==
    /\ ~last.raised
    /\ (last.op \in {"update", "delete"} /\ ~StoreAnswered) => ~last.ret.success
    /\ (last.op = "create" /\ ~StoreAnswered) => last.ret = FALSE
    /\ (last.op \in {"read", "get_breeds_by_rescue_type"} /\ ~StoreAnswered)
          => last.ret = <<>>
    /\ (last.op = "get_animal_statistics" /\ ~StoreAnswered) => DOMAIN last.ret = {}
    /\ (last.op = "create" /\ Incomplete(last.data)) => calls = <<>>
    /\ (last.op \in {"read", "update", "delete"} /\ last.criteria.kind \notin {"dict", "none"})
          => calls = <<>>

\* C10: for a valid record create returns success exactly when the store
\* assigned the inserted record an identity, and a create that repeats the
\* record of the successful create just before it succeeds too and stores a
\* second record (the store being up).
C10_CreateTwiceIndependent ==
    (last.op = "create" /\ ~Incomplete(last.data))
        => /\ last.ret = StoreAnswered
           /\ (last.again /\ ~calls[1].fault)
                => (last.ret = TRUE /\ Len(animals) = Len(before) + 1)

====
